---- MODULE Spec2Model ----
(***************************************************************************)
(* Model of the incremental update pipeline of zotero-mcp's semantic       *)
(* search: ZoteroSemanticSearch.update_database and the code it calls      *)
(* (semantic_search.py, local_db.py, chroma_client.py, utils.py), and the  *)
(* triggers that start it (server.py, cli.py).                             *)
(*                                                                         *)
(* Strings are sequences of one-character strings; the empty sequence      *)
(* stands for both None and "" where the code tests truthiness.            *)
(***************************************************************************)
EXTENDS Integers, Sequences, FiniteSets, TLC

VARIABLES
    library,        \* the Zotero library: records in dateModified-descending order
    store,          \* the Chroma collection: record key -> stored entry
    config_file,    \* semantic_search.update_config as persisted in config.json
    now,            \* wall clock, in days
    pc,             \* per process: position inside update_database
    args,           \* per process: arguments of the current update_database call
    update_config,  \* per process: self.update_config of the instance
    items,          \* per process: all_items of the current run
    pos,            \* per process: start index of the next batch
    stats,          \* per process: stats of the current run
    hist,           \* per process: history of the current run (not program state)
    ret             \* what the last query or maintenance operation returned

vars == <<library, store, config_file, now, pc, args, update_config, items, pos, stats,
          hist, ret>>

-----------------------------------------------------------------------------
(* Bounds of the model *)

\* number of regular (non-attachment, non-note) records in the Zotero library
NumRecords == 2

\* number of records of the libraries that span more than one batch
NumBatchRecords == 3

\* number of records of the libraries that extraction is examined on
NumExtractRecords == 1

\* number of update_database runs that may be started
MaxRuns == 2

\* items per upsert batch; the code uses 50 (semantic_search.py:601), scaled
\* down so that a library of NumBatchRecords records spans more than one batch
BatchSize == 2

\* largest value of the optional limit argument (0 stands for None)
MaxLimit == 1

\* last day of the clock
MaxDay == 3

\* number of characters kept of an extracted fulltext (local_db.py:251)
FulltextCap == 10000

-----------------------------------------------------------------------------
(* Strings *)

None == <<>>

Min(a, b) == IF a < b THEN a ELSE b

\* str.lower() on one character
Lower(c) ==
    CASE c = "D" -> "d"
      [] c = "T" -> "t"
      [] OTHER -> c

IsSpace(c) == c \in {" ", "\t", "\n"}

\* "".join(s.lower().split()): lower-case, all whitespace removed
RECURSIVE LowerNoSpace(_)
LowerNoSpace(s) ==
    IF s = <<>> THEN <<>>
    ELSE IF IsSpace(Head(s)) THEN LowerNoSpace(Tail(s))
    ELSE <<Lower(Head(s))>> \o LowerNoSpace(Tail(s))

\* norm() of _get_items_from_local_db
norm(s) == IF s = <<>> THEN None ELSE LowerNoSpace(s)

\* s.strip() is non-empty
StripNonEmpty(s) == \E i \in 1..Len(s) : ~IsSpace(s[i])

\* s[:n]
Prefix(s, n) == SubSeq(s, 1, Min(Len(s), n))

-----------------------------------------------------------------------------
(* SourceReader: local_db.py *)

PdfType == "application/pdf"

\* (ctype or "").startswith("text/html")
IsHtmlType(ctype) == ctype \in {"text/html", "text/html; charset=utf-8"}

\* _resolve_attachment_path: only 'storage:...' paths resolve to a file path
ResolveAttachmentPath(a) == a.path = "storage"

\* a loop that does not test that the resolved file exists
Usable_IgnoresExists(a) == ResolveAttachmentPath(a)

\* the attachment is not skipped by the loop of _extract_fulltext_for_item
Usable(a) == ResolveAttachmentPath(a) /\ a.exists

\* the loop of _extract_fulltext_for_item: <<best_pdf, best_html>> as indexes
\* into the attachment rows, 0 for None
RECURSIVE ScanAttachments(_, _, _, _)
ScanAttachments(atts, i, best_pdf, best_html) ==
    IF i > Len(atts) THEN <<best_pdf, best_html>>
    ELSE IF ~Usable(atts[i]) THEN ScanAttachments(atts, i + 1, best_pdf, best_html)
    ELSE IF atts[i].ctype = PdfType /\ best_pdf = 0
         THEN ScanAttachments(atts, i + 1, i, best_html)
    ELSE IF IsHtmlType(atts[i].ctype) /\ best_html = 0
         THEN ScanAttachments(atts, i + 1, best_pdf, i)
    ELSE ScanAttachments(atts, i + 1, best_pdf, best_html)

\* source tag computed from the target's file name extension
SourceOfSuffix(suffix) ==
    IF suffix = ".pdf" THEN "pdf"
    ELSE IF suffix \in {".html", ".htm"} THEN "html"
    ELSE "file"

NoFulltext == [text |-> None, source |-> ""]

\* an extraction that returns the whole text of the file
ExtractFulltextForItem_Untruncated(atts) ==
    LET best   == ScanAttachments(atts, 1, 0, 0)
        target == IF best[1] # 0 THEN best[1] ELSE best[2]
    IN  IF target = 0 THEN NoFulltext
        ELSE IF atts[target].text = None THEN NoFulltext
        ELSE [text   |-> atts[target].text,
              source |-> SourceOfSuffix(atts[target].suffix)]

\* _extract_fulltext_for_item; NoFulltext stands for the None result.
\* a.text is what _extract_text_from_file yields for the file ("" on failure).
ExtractFulltextForItem(atts) ==
    LET best   == ScanAttachments(atts, 1, 0, 0)
        target == IF best[1] # 0 THEN best[1] ELSE best[2]
    IN  IF target = 0 THEN NoFulltext
        ELSE IF atts[target].text = None THEN NoFulltext
        ELSE [text   |-> Prefix(atts[target].text, FulltextCap),
              source |-> SourceOfSuffix(atts[target].suffix)]

\* len(reader.get_fulltext_meta_for_item(it.item_id)) > 0
LocalHasFulltext(rec) == Len(rec.atts) > 0

\* get_items_with_text(limit, include_fulltext=False): SQL LIMIT when limit
LocalItems(lib, limit) == IF limit # 0 THEN Prefix(lib, limit) ELSE lib

-----------------------------------------------------------------------------
(* Deduplicator: _get_items_from_local_db, lines 298-346 *)

NoKey == <<>>

DoiKey(it) == IF it.doi # None THEN <<"doi", norm(it.doi)>> ELSE NoKey

TitleKey(it) == IF it.title # None THEN <<"title", norm(it.title)>> ELSE NoKey

\* prefer_types.get(item_type, 0)
PreferScore(t) ==
    CASE t = "journalArticle" -> 2
      [] t = "preprint" -> 1
      [] OTHER -> 0

\* consider(k) for the record at index i; best maps keys to record indexes
Consider(best, k, i, its) ==
    IF k = NoKey THEN best
    ELSE IF k \notin DOMAIN best THEN (k :> i) @@ best
    ELSE IF PreferScore(its[i].item_type) > PreferScore(its[best[k]].item_type)
         THEN [best EXCEPT ![k] = i]
    ELSE best

RECURSIVE BuildKeyToBest(_, _, _)
BuildKeyToBest(its, i, best) ==
    IF i > Len(its) THEN best
    ELSE BuildKeyToBest(its, i + 1,
            Consider(Consider(best, DoiKey(its[i]), i, its), TitleKey(its[i]), i, its))

key_to_best(its) == BuildKeyToBest(its, 1, [k \in {} |-> 0])

\* a second pass that drops a preprint whenever another record holds one of
\* its keys, whatever that record's type
Drop_BestOfAnyType(its, i, best) ==
    /\ its[i].item_type = "preprint"
    /\ \E k \in {DoiKey(its[i]), TitleKey(its[i])} \ {NoKey} :
          /\ k \in DOMAIN best
          /\ best[k] # i

\* a single pass: the drop flag of the record at index i looks at the index
\* built over the records up to i only
Drop_SinglePass(its, i, best) ==
    LET seen == BuildKeyToBest(Prefix(its, i), 1, [k \in {} |-> 0])
    IN  /\ its[i].item_type = "preprint"
        /\ \E k \in {DoiKey(its[i]), TitleKey(its[i])} \ {NoKey} :
              /\ k \in DOMAIN seen
              /\ seen[k] # i
              /\ its[seen[k]].item_type = "journalArticle"

\* the drop flag of the second pass, for the record at index i
Drop(its, i, best) ==
    /\ its[i].item_type = "preprint"
    /\ \E k \in {DoiKey(its[i]), TitleKey(its[i])} \ {NoKey} :
          /\ k \in DOMAIN best
          /\ best[k] # i
          /\ its[best[k]].item_type = "journalArticle"

RECURSIVE FilterFrom(_, _, _)
FilterFrom(its, i, best) ==
    IF i > Len(its) THEN <<>>
    ELSE (IF Drop(its, i, best) THEN <<>> ELSE <<its[i]>>) \o FilterFrom(its, i + 1, best)

\* filtered_items
Dedup(its) == FilterFrom(its, 1, key_to_best(its))

-----------------------------------------------------------------------------
(* VectorStore adapter: chroma_client.py *)

Max(a, b) == IF a > b THEN a ELSE b

\* record keys (ids of the collection)
Keys == 1..Max(NumRecords, NumBatchRecords)

NoEntry == [present |-> FALSE]

\* an entry as written by upsert: document text and the has_fulltext and
\* fulltext_source fields of its metadata map (absent fields: FALSE and "")
Entry(doc, has_fulltext, fulltext_source) ==
    [present |-> TRUE, doc |-> doc, has_fulltext |-> has_fulltext,
     fulltext_source |-> fulltext_source]

EmptyCollection == [k \in Keys |-> NoEntry]

\* get_document_metadata: the metadata of the entry, None when absent
GetDocumentMetadata(st, k) == st[k]

\* collection.upsert(documents, metadatas, ids): docs is a sequence of
\* [id, entry]; each id's entry is replaced
RECURSIVE UpsertDocuments(_, _)
UpsertDocuments(st, docs) ==
    IF docs = <<>> THEN st
    ELSE UpsertDocuments([st EXCEPT ![Head(docs).id] = Head(docs).entry], Tail(docs))

\* collection.count()
Count(st) == Cardinality({k \in Keys : st[k].present})

-----------------------------------------------------------------------------
(* ExistingIndexProbe: _get_items_from_local_db, lines 366-382 *)

\* a probe that skips every record that has a stored entry
ProbeDecision_SkipWhenStored(st, rec, use_client, force_rebuild) ==
    IF use_client /\ ~force_rebuild /\ GetDocumentMetadata(st, rec.key).present
    THEN "skip"
    ELSE "new"

\* a probe that does not look at the stored has_fulltext
ProbeDecision_IgnoresStoredFulltext(st, rec, use_client, force_rebuild) ==
    IF use_client /\ ~force_rebuild /\ GetDocumentMetadata(st, rec.key).present
    THEN IF LocalHasFulltext(rec) THEN "update" ELSE "skip"
    ELSE "new"

\* The decision taken for one record: "new" (no probe, or nothing stored),
\* "update" (updated_existing += 1) or "skip" (skipped_existing += 1).
\* use_client is the truth value of the chroma_client argument.
ProbeDecision(st, rec, use_client, force_rebuild) ==
    IF use_client /\ ~force_rebuild
    THEN LET existing_metadata == GetDocumentMetadata(st, rec.key)
         IN  IF existing_metadata.present
             THEN IF ~existing_metadata.has_fulltext /\ LocalHasFulltext(rec)
                  THEN "update"
                  ELSE "skip"
             ELSE "new"
    ELSE "new"

\* should_extract
ShouldExtract(st, rec, use_client, force_rebuild) ==
    ProbeDecision(st, rec, use_client, force_rebuild) # "skip"

-----------------------------------------------------------------------------
(* Candidate fetch: _get_items_from_local_db and _get_items_from_api *)

\* the API-compatible item built from a local record (lines 427-449)
ApiItemOfLocal(rec, extract_fulltext) ==
    LET ft == IF extract_fulltext THEN ExtractFulltextForItem(rec.atts) ELSE NoFulltext
    IN  [key            |-> rec.key,
         itemType       |-> rec.item_type,
         title          |-> rec.title,
         fulltext       |-> ft.text,
         fulltextSource |-> ft.source]

\* items_to_process of phase 2, converted to API format
RECURSIVE ItemsToProcess(_, _, _, _)
ItemsToProcess(its, st, use_client, force_rebuild) ==
    IF its = <<>> THEN <<>>
    ELSE (IF ShouldExtract(st, Head(its), use_client, force_rebuild)
          THEN <<ApiItemOfLocal(Head(its), TRUE)>>
          ELSE <<>>)
         \o ItemsToProcess(Tail(its), st, use_client, force_rebuild)

RECURSIVE AllAsApiItems(_, _)
AllAsApiItems(its, extract_fulltext) ==
    IF its = <<>> THEN <<>>
    ELSE <<ApiItemOfLocal(Head(its), extract_fulltext)>>
         \o AllAsApiItems(Tail(its), extract_fulltext)

\* _get_items_from_local_db when the database can be read
GetItemsFromLocalDb(lib, limit, extract_fulltext, st, use_client, force_rebuild) ==
    LET local_items == Dedup(LocalItems(lib, limit))
    IN  IF extract_fulltext
        THEN ItemsToProcess(local_items, st, use_client, force_rebuild)
        ELSE AllAsApiItems(local_items, FALSE)

\* an item as the Zotero API returns it: no fulltext field
ApiItem(rec) ==
    [key            |-> rec.key,
     itemType       |-> rec.item_type,
     title          |-> rec.title,
     fulltext       |-> None,
     fulltextSource |-> ""]

RECURSIVE ApiItems(_)
ApiItems(lib) ==
    IF lib = <<>> THEN <<>> ELSE <<ApiItem(Head(lib))>> \o ApiItems(Tail(lib))

\* _get_items_from_api when the API answers: every regular record of the
\* library (the library is smaller than one page of 100), cut to limit
GetItemsFromApi(lib, limit) ==
    IF limit # 0 THEN Prefix(ApiItems(lib), limit) ELSE ApiItems(lib)

\* the branch of _get_items_from_source
UsesLocalDb(extract_fulltext, local_mode) == extract_fulltext /\ local_mode

-----------------------------------------------------------------------------
(* Document and metadata: _create_document_text, _create_metadata *)

\* format_creators([]) of utils.py: the records of the model have no creators
NoAuthors == <<"No authors listed">>

\* " ".join(filter(None, [title, creators_text, abstract] + extra_fields))
CreateDocumentText(item) ==
    IF item.title # None THEN item.title \o <<" ">> \o NoAuthors ELSE NoAuthors

\* has_fulltext and fulltext_source as _create_metadata sets them
MetaHasFulltext(item) == item.fulltext # None

MetaFulltextSource(item) ==
    IF item.fulltext # None /\ item.fulltextSource # "" THEN item.fulltextSource ELSE ""

\* doc_text of _process_item_batch
DocText(item) ==
    IF StripNonEmpty(item.fulltext) THEN item.fulltext ELSE CreateDocumentText(item)

-----------------------------------------------------------------------------
(* Batch processing: _process_item_batch *)

\* the per-item loop: the documents collected for upsert, as [id, entry]
RECURSIVE BatchDocuments(_)
BatchDocuments(batch) ==
    IF batch = <<>> THEN <<>>
    ELSE LET item == Head(batch)
             doc_text == DocText(item)
         IN  (IF StripNonEmpty(doc_text)
              THEN <<[id |-> item.key,
                      entry |-> Entry(doc_text, MetaHasFulltext(item),
                                      MetaFulltextSource(item))]>>
              ELSE <<>>)
             \o BatchDocuments(Tail(batch))

\* batch_stats that count a failed upsert as one error
BatchStats_OneErrorPerBatch(batch, upsert_ok) ==
    LET n == Len(BatchDocuments(batch))
    IN  [processed |-> n,
         skipped   |-> Len(batch) - n,
         added     |-> IF upsert_ok THEN n ELSE 0,
         updated   |-> 0,
         errors    |-> IF upsert_ok THEN 0 ELSE 1]

\* batch_stats that count the documents as added before the upsert is tried
BatchStats_AddedBeforeUpsert(batch, upsert_ok) ==
    LET n == Len(BatchDocuments(batch))
    IN  [processed |-> n,
         skipped   |-> Len(batch) - n,
         added     |-> n,
         updated   |-> 0,
         errors    |-> IF upsert_ok THEN 0 ELSE n]

\* batch_stats returned by _process_item_batch; upsert_ok tells whether
\* chroma_client.upsert_documents returned (TRUE) or raised (FALSE)
BatchStats(batch, upsert_ok) ==
    LET n == Len(BatchDocuments(batch))
    IN  [processed |-> n,
         skipped   |-> Len(batch) - n,
         added     |-> IF upsert_ok THEN n ELSE 0,
         updated   |-> 0,
         errors    |-> IF upsert_ok THEN 0 ELSE n]

\* stats[...] += batch_stats[...] of update_database
AddBatchStats(st, b) ==
    [st EXCEPT !.processed_items = @ + b.processed,
               !.added_items     = @ + b.added,
               !.updated_items   = @ + b.updated,
               !.skipped_items   = @ + b.skipped,
               !.errors          = @ + b.errors]

\* all_items[i:i + batch_size], 1-based start index
BatchAt(its, i) == SubSeq(its, i, Min(i + BatchSize - 1, Len(its)))

-----------------------------------------------------------------------------
(* Scheduling and persisted configuration *)

NoFile == [exists |-> FALSE]

\* last_update: 0 stands for None, a positive number for an ISO timestamp
\* (in days), Malformed for a string that datetime.fromisoformat rejects
DefaultUpdateConfig ==
    [auto_update |-> FALSE, update_frequency |-> "manual", last_update |-> 0,
     update_days |-> 7]

Malformed == -1

\* _load_update_config: the defaults, overridden by the keys of the file
LoadUpdateConfig(file) ==
    IF file.exists THEN file.update_config ELSE DefaultUpdateConfig

\* int(frequency.split("_")[1]) for the every_N values of the model
EveryDays(frequency) == IF frequency = "every_2" THEN 2 ELSE 7

\* should_update_database leaves by an exception: the daily branch calls
\* datetime.fromisoformat outside any try block
ShouldUpdateRaises(cfg) ==
    /\ cfg.auto_update
    /\ cfg.update_frequency = "daily"
    /\ cfg.last_update = Malformed

\* a daily schedule that does not look at last_update
ShouldUpdateDatabase_DailyAlways(cfg, t) ==
    IF ~cfg.auto_update THEN FALSE
    ELSE IF cfg.update_frequency = "manual" THEN FALSE
    ELSE IF cfg.update_frequency \in {"startup", "daily"} THEN TRUE
    ELSE IF cfg.update_frequency \in {"every_2", "every_7"}
         THEN cfg.last_update = 0 \/ t - cfg.last_update >= EveryDays(cfg.update_frequency)
    ELSE FALSE

\* the value should_update_database returns at time t (when it returns)
ShouldUpdateDatabase(cfg, t) ==
    IF ~cfg.auto_update THEN FALSE
    ELSE IF cfg.update_frequency = "manual" THEN FALSE
    ELSE IF cfg.update_frequency = "startup" THEN TRUE
    ELSE IF cfg.update_frequency = "daily"
         THEN cfg.last_update = 0
              \/ (cfg.last_update # Malformed /\ t - cfg.last_update >= 1)
    ELSE IF cfg.update_frequency \in {"every_2", "every_7"}
         THEN cfg.last_update = 0
              \/ (cfg.last_update # Malformed
                  /\ t - cfg.last_update >= EveryDays(cfg.update_frequency))
    ELSE FALSE

-----------------------------------------------------------------------------
(* State *)

\* instances of ZoteroSemanticSearch; each process that triggers an update
\* (CLI update-db, the MCP tool, the server's startup hook) creates its own
Procs == {"p1", "p2"}

Triggers == {"cli", "tool", "startup"}

PdfAttachment(exists, text) ==
    [ctype |-> PdfType, path |-> "storage", exists |-> exists, suffix |-> ".pdf",
     text |-> text]

PdfWithText == <<PdfAttachment(TRUE, <<"f", "u", "l", "l">>)>>

\* attachment rows of a record: none; a PDF with text; a PDF row whose file
\* is missing on disk; a PDF whose extracted text is blank
AttachmentChoices ==
    { <<>>, PdfWithText, <<PdfAttachment(FALSE, None)>>, <<PdfAttachment(TRUE, <<" ">>)>> }

Article == [item_type |-> "journalArticle", doi |-> <<"d">>, titled |-> TRUE]

Preprint == [item_type |-> "preprint", doi |-> <<"d">>, titled |-> TRUE]

Book == [item_type |-> "book", doi |-> None, titled |-> TRUE]

\* a record whose structured fields are all empty
Untitled == [item_type |-> "document", doi |-> None, titled |-> FALSE]

\* a published article and a preprint of one work (same DOI), and a book
\* without DOI
Works == { Article, Preprint, Book }

Shapes == [work : Works, atts : AttachmentChoices]

\* the records of the libraries that span several batches: books
BatchShapes == [work : {Book}, atts : {<<>>, PdfWithText}]

\* the records of the libraries that concurrent runs work on
ConcShapes == [work : {Book}, atts : {PdfWithText}]

\* one attachment row whose file exists, of a declared content type and a
\* file name extension
Attachment(ctype, suffix, text) ==
    <<[ctype |-> ctype, path |-> "storage", exists |-> TRUE, suffix |-> suffix,
       text |-> text]>>

\* a text one character longer than the cap of the extraction
LongText == [i \in 1..(FulltextCap + 1) |-> "x"]

\* the records of the libraries that extraction is examined on: a book with
\* one attachment of each combination of declared content type and file
\* name extension, a book whose PDF yields more text than the cap, and a
\* record without attachment whose fields are all empty
ExtractShapes ==
    { [work |-> Book, atts |-> Attachment(ctype, suffix, <<"f", "u", "l", "l">>)] :
        ctype \in {PdfType, "text/html"}, suffix \in {".pdf", ".html", ".txt"} }
    \cup { [work |-> Book, atts |-> Attachment(PdfType, ".pdf", LongText)],
           [work |-> Untitled, atts |-> <<>>] }

\* titles differ from record to record: i letters for the record with key i
TitleOf(i) == [j \in 1..i |-> "t"]

Record(i, shape) ==
    [key |-> i, item_type |-> shape.work.item_type, doi |-> shape.work.doi,
     title |-> IF shape.work.titled THEN TitleOf(i) ELSE None, atts |-> shape.atts]

ZeroStats ==
    [total_items |-> 0, processed_items |-> 0, added_items |-> 0,
     updated_items |-> 0, skipped_items |-> 0, errors |-> 0, error |-> ""]

NoArgs ==
    [force_full_rebuild |-> FALSE, limit |-> 0,
     extract_fulltext |-> FALSE, local_mode |-> FALSE]

\* history of a run: the collection when the run began and when it fetched,
\* where the candidates came from, the deduplicated candidates, the number
\* of candidates read before deduplication, the start indexes of the batches
\* whose upsert raised and of those whose upsert returned, the step
\* that raised an exception which ended the run, the key of the candidate
\* whose attachment rows could not be enumerated (0 for none), and the start
\* indexes of the batches handed to upsert_documents, in the order of the
\* calls
NoHist ==
    [store0 |-> EmptyCollection, probed |-> EmptyCollection, source |-> "none",
     candidates |-> <<>>, fetched |-> 0, failed |-> {}, upserted |-> {},
     fatal |-> "", raised_at |-> 0, submitted |-> <<>>]

\* nothing has been returned yet
NoRet == [op |-> "none"]

InitialConfigFile ==
    [exists |-> TRUE,
     update_config |-> [auto_update |-> TRUE, update_frequency |-> "startup",
                        last_update |-> 0, update_days |-> 7]]

\* the state after installation: a library of n records, an empty collection
\* and the given config file
InitConfigured(n, shapes, file) ==
    /\ \E sh \in [1..n -> shapes] : library = [i \in 1..n |-> Record(i, sh[i])]
    /\ store = EmptyCollection
    /\ config_file = file
    /\ now = 0
    /\ pc = [p \in Procs |-> "idle"]
    /\ args = [p \in Procs |-> NoArgs]
    /\ update_config = [p \in Procs |-> DefaultUpdateConfig]
    /\ items = [p \in Procs |-> <<>>]
    /\ pos = [p \in Procs |-> 1]
    /\ stats = [p \in Procs |-> ZeroStats]
    /\ hist = [p \in Procs |-> NoHist]
    /\ ret = NoRet

InitWith(n, shapes) == InitConfigured(n, shapes, InitialConfigFile)

Init == InitWith(NumRecords, Shapes)

InitBatch == InitWith(NumBatchRecords, BatchShapes)

InitConc == InitWith(NumRecords, ConcShapes)

InitExtract == InitWith(NumExtractRecords, ExtractShapes)

\* what the setup wizard writes as update_config for a choice of schedule;
\* it writes no last_update (0 when loaded) and update_days only for every_N
SetupChoice(auto, frequency, days) ==
    [auto_update |-> auto, update_frequency |-> frequency, last_update |-> 0,
     update_days |-> days]

SetupChoices ==
    { SetupChoice(FALSE, "manual", 7), SetupChoice(TRUE, "startup", 7),
      SetupChoice(TRUE, "daily", 7), SetupChoice(TRUE, "every_2", 2),
      SetupChoice(TRUE, "every_7", 7) }

\* config files at the start: none, or one that setup wrote and whose
\* last_update is absent or was edited into something that is no timestamp
InitialConfigFiles ==
    {NoFile} \cup
    { [exists |-> TRUE, update_config |-> [c EXCEPT !.last_update = lu]] :
        c \in SetupChoices, lu \in {0, Malformed} }

\* one library, any of the initial config files
InitOps == \E file \in InitialConfigFiles : InitConfigured(NumRecords, ConcShapes, file)

Active(p) == pc[p] \in {"reset", "fetch", "batch"}

-----------------------------------------------------------------------------
(* update_database, step by step *)

\* The arguments each trigger passes: the CLI passes its flags, the MCP tool
\* never extracts fulltext, the startup hook passes extract_fulltext=False
\* only and runs when the config file exists and should_update_database()
\* says so.
TriggerAllows(trigger, force, limit, extract, cfg, t) ==
    CASE trigger = "cli"     -> TRUE
      [] trigger = "tool"    -> ~extract
      [] trigger = "startup" -> ~extract /\ ~force /\ limit = 0
                                /\ config_file.exists /\ ~ShouldUpdateRaises(cfg)
                                /\ ShouldUpdateDatabase(cfg, t)

\* create_semantic_search(...) followed by the first lines of update_database
Begin(p, trigger, force, limit, extract, local) ==
    /\ pc[p] \in {"idle", "done"}
    /\ now < MaxRuns
    /\ TriggerAllows(trigger, force, limit, extract, LoadUpdateConfig(config_file), now + 1)
    /\ now' = now + 1
    /\ update_config' = [update_config EXCEPT ![p] = LoadUpdateConfig(config_file)]
    /\ args' = [args EXCEPT ![p] =
                  [force_full_rebuild |-> force, limit |-> limit,
                   extract_fulltext |-> extract, local_mode |-> local]]
    /\ stats' = [stats EXCEPT ![p] = ZeroStats]
    /\ items' = [items EXCEPT ![p] = <<>>]
    /\ pos' = [pos EXCEPT ![p] = 1]
    /\ hist' = [hist EXCEPT ![p] = [NoHist EXCEPT !.store0 = store]]
    /\ pc' = [pc EXCEPT ![p] = IF force THEN "reset" ELSE "fetch"]
    /\ UNCHANGED <<ret, library, store, config_file>>

\* an exception that is not caught: it leaves update_database
Except_Reraises(p, why) ==
    /\ stats' = stats
    /\ pc' = [pc EXCEPT ![p] = "raised"]

\* an exception raised inside the try block of update_database: the except
\* clause puts str(e) into stats["error"] and returns stats
Except(p, why) ==
    /\ stats' = [stats EXCEPT ![p].error = why]
    /\ pc' = [pc EXCEPT ![p] = "done"]

\* a reset that leaves the entries in the collection
ResetCollection_KeepsEntries(p) ==
    /\ pc[p] = "reset"
    /\ pc' = [pc EXCEPT ![p] = "fetch"]
    /\ UNCHANGED <<ret, library, store, config_file, now, args, update_config, items, pos,
                   stats, hist>>

\* chroma_client.reset_collection() returns
ResetCollection(p) ==
    /\ pc[p] = "reset"
    /\ store' = EmptyCollection
    /\ pc' = [pc EXCEPT ![p] = "fetch"]
    /\ UNCHANGED <<ret, library, config_file, now, args, update_config, items, pos, stats, hist>>

\* reset_collection raises: in delete_collection (nothing deleted) or in
\* create_collection (the collection is already deleted)
ResetCollectionFails(p) ==
    /\ pc[p] = "reset"
    /\ \E deleted \in BOOLEAN :
          store' = IF deleted THEN EmptyCollection ELSE store
    /\ hist' = [hist EXCEPT ![p].fatal = "reset"]
    /\ Except(p, "reset")
    /\ UNCHANGED <<ret, library, config_file, now, args, update_config, items, pos>>

\* what _get_items_from_source leaves in all_items, and the bookkeeping
Fetched(p, its, source, candidates, fetched) ==
    /\ items' = [items EXCEPT ![p] = its]
    /\ stats' = [stats EXCEPT ![p].total_items = Len(its)]
    /\ hist' = [hist EXCEPT ![p].source = source, ![p].probed = store,
                            ![p].candidates = candidates, ![p].fetched = fetched]
    /\ pos' = [pos EXCEPT ![p] = 1]
    /\ pc' = [pc EXCEPT ![p] = "batch"]
    /\ UNCHANGED <<ret, library, store, config_file, now, args, update_config>>

\* _get_items_from_source takes the local database branch and the database
\* is read without an exception
FetchLocal(p) ==
    /\ pc[p] = "fetch"
    /\ UsesLocalDb(args[p].extract_fulltext, args[p].local_mode)
    /\ Fetched(p,
               GetItemsFromLocalDb(library, args[p].limit, args[p].extract_fulltext,
                                   store, ~args[p].force_full_rebuild,
                                   args[p].force_full_rebuild),
               "local",
               Dedup(LocalItems(library, args[p].limit)),
               Len(LocalItems(library, args[p].limit)))

\* the items come from the Zotero API: either _get_items_from_source takes
\* the API branch, or reading the local database raised and the except
\* clause of _get_items_from_local_db falls back to the API
FetchApi(p) ==
    /\ pc[p] = "fetch"
    /\ Fetched(p,
               GetItemsFromApi(library, args[p].limit),
               "api",
               LocalItems(library, args[p].limit),
               Len(LocalItems(library, args[p].limit)))

\* the local database is open and the candidates are read, but enumerating
\* the attachment rows of the candidate with key k raises (the query of
\* _iter_parent_attachments, or exists() on the resolved path): nothing in
\* the loop over the candidates catches it, so the except clause of
\* _get_items_from_local_db falls back to the API for the whole run
FetchLocalAttachmentFails(p, k) ==
    /\ pc[p] = "fetch"
    /\ UsesLocalDb(args[p].extract_fulltext, args[p].local_mode)
    /\ \E i \in 1..Len(Dedup(LocalItems(library, args[p].limit))) :
          Dedup(LocalItems(library, args[p].limit))[i].key = k
    /\ items' = [items EXCEPT ![p] = GetItemsFromApi(library, args[p].limit)]
    /\ stats' = [stats EXCEPT ![p].total_items = Len(GetItemsFromApi(library, args[p].limit))]
    /\ hist' = [hist EXCEPT ![p].source = "api", ![p].probed = store,
                            ![p].candidates = LocalItems(library, args[p].limit),
                            ![p].fetched = Len(LocalItems(library, args[p].limit)),
                            ![p].raised_at = k]
    /\ pos' = [pos EXCEPT ![p] = 1]
    /\ pc' = [pc EXCEPT ![p] = "batch"]
    /\ UNCHANGED <<ret, library, store, config_file, now, args, update_config>>

\* zotero_client.items raises (after a local database failure or not):
\* _get_items_from_api raises and update_database catches it
FetchFails(p) ==
    /\ pc[p] = "fetch"
    /\ hist' = [hist EXCEPT ![p].fatal = "fetch"]
    /\ Except(p, "fetch")
    /\ UNCHANGED <<ret, library, store, config_file, now, args, update_config, items, pos>>

\* an iteration that stays on the batch when its upsert raised, so that the
\* batch is submitted again
ProcessItemBatch_Resubmits(p, upsert_ok) ==
    /\ pos[p] <= Len(items[p])
    /\ Len(hist[p].submitted) < 2 * NumBatchRecords
    /\ LET batch == BatchAt(items[p], pos[p])
           docs  == BatchDocuments(batch)
       IN  /\ upsert_ok \/ docs # <<>>
           /\ store' = IF upsert_ok THEN UpsertDocuments(store, docs) ELSE store
           /\ stats' = [stats EXCEPT ![p] = AddBatchStats(@, BatchStats(batch, upsert_ok))]
           /\ hist' = [hist EXCEPT
                   ![p].failed = IF upsert_ok THEN @ ELSE @ \cup {pos[p]},
                   ![p].upserted = IF upsert_ok /\ docs # <<>> THEN @ \cup {pos[p]} ELSE @,
                   ![p].submitted = IF docs # <<>> THEN Append(@, pos[p]) ELSE @]
    /\ pos' = [pos EXCEPT ![p] = IF upsert_ok THEN @ + BatchSize ELSE @]
    /\ UNCHANGED <<ret, library, config_file, now, pc, args, update_config, items>>

\* one iteration of the batch loop; upsert_ok: upsert_documents returned
ProcessItemBatch(p, upsert_ok) ==
    /\ pos[p] <= Len(items[p])
    /\ LET batch == BatchAt(items[p], pos[p])
           docs  == BatchDocuments(batch)
       IN  /\ upsert_ok \/ docs # <<>>
           /\ store' = IF upsert_ok THEN UpsertDocuments(store, docs) ELSE store
           /\ stats' = [stats EXCEPT ![p] = AddBatchStats(@, BatchStats(batch, upsert_ok))]
           /\ hist' = [hist EXCEPT
                   ![p].failed = IF upsert_ok THEN @ ELSE @ \cup {pos[p]},
                   ![p].upserted = IF upsert_ok /\ docs # <<>> THEN @ \cup {pos[p]} ELSE @,
                   ![p].submitted = IF docs # <<>> THEN Append(@, pos[p]) ELSE @]
    /\ pos' = [pos EXCEPT ![p] = @ + BatchSize]
    /\ UNCHANGED <<ret, library, config_file, now, pc, args, update_config, items>>

\* the batch is processed and its upsert returns
ProcessBatch(p) ==
    /\ pc[p] = "batch"
    /\ ProcessItemBatch(p, TRUE)

\* the batch is processed and its upsert raises: the exception is caught
\* inside _process_item_batch
ProcessBatchUpsertFails(p) ==
    /\ pc[p] = "batch"
    /\ ProcessItemBatch(p, FALSE)

\* a completion that saves the configuration without stamping last_update
Finish_SkipsStamp(p) ==
    /\ pc[p] = "batch"
    /\ pos[p] > Len(items[p])
    /\ config_file' = [exists |-> TRUE, update_config |-> update_config[p]]
    /\ pc' = [pc EXCEPT ![p] = "done"]
    /\ UNCHANGED <<ret, library, store, now, args, update_config, items, pos, stats, hist>>

\* after the loop: last_update is set and _save_update_config writes the
\* instance's update_config into the file
Finish(p) ==
    /\ pc[p] = "batch"
    /\ pos[p] > Len(items[p])
    /\ update_config' = [update_config EXCEPT ![p].last_update = now]
    /\ config_file' = [exists |-> TRUE, update_config |-> update_config'[p]]
    /\ pc' = [pc EXCEPT ![p] = "done"]
    /\ UNCHANGED <<ret, library, store, now, args, items, pos, stats, hist>>

\* _save_update_config cannot write the file: the error is logged and the
\* run ends normally
FinishWriteFails(p) ==
    /\ pc[p] = "batch"
    /\ pos[p] > Len(items[p])
    /\ update_config' = [update_config EXCEPT ![p].last_update = now]
    /\ pc' = [pc EXCEPT ![p] = "done"]
    /\ UNCHANGED <<ret, library, store, config_file, now, args, items, pos, stats, hist>>

\* _save_update_config raises (config_dir.mkdir): update_database catches it
FinishSaveRaises(p) ==
    /\ pc[p] = "batch"
    /\ pos[p] > Len(items[p])
    /\ update_config' = [update_config EXCEPT ![p].last_update = now]
    /\ hist' = [hist EXCEPT ![p].fatal = "save"]
    /\ Except(p, "save")
    /\ UNCHANGED <<ret, library, store, config_file, now, args, items, pos>>

-----------------------------------------------------------------------------
(* The other operations: each is called on an instance that the caller has *)
(* just created, whose update_config is what the file holds                *)

\* should_update_database(), as server_lifespan calls it at startup
ShouldUpdateCheck ==
    /\ LET cfg == LoadUpdateConfig(config_file)
       IN  ret' = [op |-> "should_update_database",
                   at |-> now,
                   raised |-> ShouldUpdateRaises(cfg),
                   value |-> ~ShouldUpdateRaises(cfg) /\ ShouldUpdateDatabase(cfg, now)]
    /\ UNCHANGED <<library, store, config_file, now, pc, args, update_config, items, pos,
                   stats, hist>>

\* get_database_status()
GetDatabaseStatus ==
    /\ LET cfg == LoadUpdateConfig(config_file)
       IN  ret' = IF ShouldUpdateRaises(cfg)
                  THEN [op |-> "get_database_status", raised |-> TRUE]
                  ELSE [op |-> "get_database_status", raised |-> FALSE,
                        count |-> Count(store),
                        should_update |-> ShouldUpdateDatabase(cfg, now),
                        last_update |-> cfg.last_update]
    /\ UNCHANGED <<library, store, config_file, now, pc, args, update_config, items, pos,
                   stats, hist>>

\* search(query): the ids the collection returns (ranking is not modelled);
\* a failing query is caught and reported in the result
Search(ok) ==
    /\ ret' = [op |-> "search",
               results |-> IF ok THEN {k \in Keys : store[k].present} ELSE {},
               error |-> ~ok]
    /\ UNCHANGED <<library, store, config_file, now, pc, args, update_config, items, pos,
                   stats, hist>>

\* delete_item(item_key): True when delete_documents returns, False when it
\* raises
DeleteItem(k, ok) ==
    /\ store' = IF ok THEN [store EXCEPT ![k] = NoEntry] ELSE store
    /\ ret' = [op |-> "delete_item", value |-> ok]
    /\ UNCHANGED <<library, config_file, now, pc, args, update_config, items, pos,
                   stats, hist>>

\* setup_semantic_search followed by save_semantic_search_config: the whole
\* semantic_search section of the file is replaced
SaveSemanticSearchConfig(c) ==
    /\ config_file' = [exists |-> TRUE, update_config |-> c]
    /\ UNCHANGED <<ret, library, store, now, pc, args, update_config, items, pos,
                   stats, hist>>

\* a day passes
Tick ==
    /\ now < MaxDay
    /\ now' = now + 1
    /\ UNCHANGED <<ret, library, store, config_file, pc, args, update_config, items,
                   pos, stats, hist>>

Step(p) ==
    \/ ResetCollection(p)
    \/ ResetCollectionFails(p)
    \/ FetchLocal(p)
    \/ FetchApi(p)
    \/ FetchFails(p)
    \/ ProcessBatch(p)
    \/ ProcessBatchUpsertFails(p)
    \/ Finish(p)
    \/ FinishWriteFails(p)
    \/ FinishSaveRaises(p)

Start(p) ==
    \E trigger \in Triggers, force \in BOOLEAN, limit \in 0..MaxLimit,
       extract \in BOOLEAN, local \in BOOLEAN :
        Begin(p, trigger, force, limit, extract, local)

\* one instance runs update_database, again and again
Next ==
    \/ Start("p1")
    \/ Step("p1")

Spec == Init /\ [][Next]_vars

\* the same, on libraries that span more than one batch
SpecBatch == InitBatch /\ [][Next]_vars

\* two processes; either may start a run at any time
NextConc ==
    \/ \E p \in Procs : Start(p)
    \/ \E p \in Procs : Step(p)

SpecConc == InitConc /\ [][NextConc]_vars

\* one instance, on the libraries that extraction is examined on
SpecExtract == InitExtract /\ [][Next]_vars

\* the MCP server process: the startup hook or the update tool runs
\* update_database without force rebuild and without extraction (the items
\* come from the API), the other operations are called, setup rewrites the
\* configuration and time passes
NextOps ==
    \/ \E trigger \in {"startup", "tool"} : Begin("p1", trigger, FALSE, 0, FALSE, FALSE)
    \/ FetchApi("p1")
    \/ FetchFails("p1")
    \/ ProcessBatch("p1")
    \/ ProcessBatchUpsertFails("p1")
    \/ Finish("p1")
    \/ FinishWriteFails("p1")
    \/ FinishSaveRaises("p1")
    \/ ShouldUpdateCheck
    \/ GetDatabaseStatus
    \/ \E ok \in BOOLEAN : Search(ok)
    \/ \E k \in 1..NumRecords, ok \in BOOLEAN : DeleteItem(k, ok)
    \/ \E c \in SetupChoices : SaveSemanticSearchConfig(c)
    \/ Tick

SpecOps == InitOps /\ [][NextOps]_vars

\* ---- the server's event loop (server.py) ----
\* background_update is a coroutine on the server's event loop; its body calls
\* the synchronous update_database and never awaits, so the loop's only thread
\* stays inside that call from the start of the run to its end (p1 is the
\* server process)
EventLoopBusy == Active("p1")

\* server_lifespan: should_update_database() holds and the background task is
\* created
ServerLifespan == Begin("p1", "startup", FALSE, 0, FALSE, FALSE)

\* the steps of the run inside background_update
BackgroundUpdate ==
    /\ EventLoopBusy
    /\ \/ FetchApi("p1")
       \/ FetchFails("p1")
       \/ ProcessBatch("p1")
       \/ ProcessBatchUpsertFails("p1")
       \/ Finish("p1")
       \/ FinishWriteFails("p1")
       \/ FinishSaveRaises("p1")

\* the zotero_semantic_search tool: the event loop dispatches the request and
\* calls the handler
HandleSemanticSearch(ok) == ~EventLoopBusy /\ Search(ok)

\* the zotero_get_search_database_status tool, dispatched the same way
HandleDatabaseStatus == ~EventLoopBusy /\ GetDatabaseStatus

\* the server from its start: the startup hook, the background run, the query
\* tools, setup run from another terminal, and time
NextServer ==
    \/ ServerLifespan
    \/ BackgroundUpdate
    \/ \E ok \in BOOLEAN : HandleSemanticSearch(ok)
    \/ HandleDatabaseStatus
    \/ \E c \in SetupChoices : SaveSemanticSearchConfig(c)
    \/ Tick

SpecServer == InitOps /\ [][NextServer]_vars

\* ---- libraries for deduplication ----
NumDedupRecords == 3

\* the works deduplication is examined on: each type, with no DOI or one DOI
\* written in two ways, with no title or one title written in two ways
DedupWorks ==
    [item_type : {"journalArticle", "preprint", "book"},
     doi : {None, <<"d">>, <<"D", " ">>},
     title : {None, <<"t">>, <<" ", "T">>}]

\* a record without attachment rows
DedupRecord(i, work) ==
    [key |-> i, item_type |-> work.item_type, doi |-> work.doi,
     title |-> work.title, atts |-> <<>>]

InitDedup ==
    /\ \E w \in [1..NumDedupRecords -> DedupWorks] :
          library = [i \in 1..NumDedupRecords |-> DedupRecord(i, w[i])]
    /\ store = EmptyCollection
    /\ config_file = InitialConfigFile
    /\ now = 0
    /\ pc = [p \in Procs |-> "idle"]
    /\ args = [p \in Procs |-> NoArgs]
    /\ update_config = [p \in Procs |-> DefaultUpdateConfig]
    /\ items = [p \in Procs |-> <<>>]
    /\ pos = [p \in Procs |-> 1]
    /\ stats = [p \in Procs |-> ZeroStats]
    /\ hist = [p \in Procs |-> NoHist]
    /\ ret = NoRet

\* runs of `zotero-mcp update-db --fulltext` in local mode, whose items come
\* from the local database through deduplication
NextDedup ==
    \/ Begin("p1", "cli", FALSE, 0, TRUE, TRUE)
    \/ FetchLocal("p1")
    \/ ProcessBatch("p1")
    \/ Finish("p1")

SpecDedup == InitDedup /\ [][NextDedup]_vars

\* ---- libraries for attachment selection ----
MaxAttachments == 2

\* one child attachment row: declared content type, path kind ("storage" for
\* a 'storage:...' path, "linked" for any other), whether the resolved file
\* exists, its extension and the text extraction yields for it
AttachmentRow(ctype, path, exists, suffix, text) ==
    [ctype |-> ctype, path |-> path, exists |-> exists, suffix |-> suffix, text |-> text]

\* two PDFs with different texts, a PDF whose file is missing, a PDF that
\* yields no text, an HTML snapshot, an HTML attachment linked outside the
\* storage directory, and an image
AttachmentRows ==
    { AttachmentRow(PdfType, "storage", TRUE, ".pdf", <<"p">>),
      AttachmentRow(PdfType, "storage", TRUE, ".pdf", <<"q">>),
      AttachmentRow(PdfType, "storage", FALSE, ".pdf", None),
      AttachmentRow(PdfType, "storage", TRUE, ".pdf", None),
      AttachmentRow("text/html", "storage", TRUE, ".html", <<"h">>),
      AttachmentRow("text/html", "linked", TRUE, ".html", <<"l">>),
      AttachmentRow("image/png", "storage", TRUE, ".png", <<"i">>) }

\* a book with up to MaxAttachments attachment rows, in every order
SelectShapes ==
    { [work |-> Book, atts |-> a] :
        a \in UNION { [1..n -> AttachmentRows] : n \in 0..MaxAttachments } }

InitSelect == InitWith(NumExtractRecords, SelectShapes)

SpecSelect == InitSelect /\ [][Next]_vars

\* ---- runs in which reading one record's attachments fails ----
\* one instance runs update_database over two books with a PDF each; in a
\* run that reads the local database, the attachment rows of one of them
\* may fail to be enumerated
NextAttach ==
    \/ Start("p1")
    \/ Step("p1")
    \/ \E k \in 1..NumRecords : FetchLocalAttachmentFails("p1", k)

SpecAttach == InitConc /\ [][NextAttach]_vars

\* the runs over several batches, with the fairness of a running thread:
\* update_database is straight-line code on one thread, so a run that has
\* begun takes its next step (each call into the store or the API returns
\* or raises)
SpecBatchFair == InitBatch /\ [][Next]_vars /\ WF_vars(Step("p1"))

-----------------------------------------------------------------------------
(* Properties *)

ItemKeys(its) == {its[i].key : i \in 1..Len(its)}

CandidateKeys(p) == {hist[p].candidates[i].key : i \in 1..Len(hist[p].candidates)}

\* start indexes of the batches of all_items
BatchStarts(its) == {i \in 1..Len(its) : (i - 1) % BatchSize = 0}

\* indexes of the items that lie in the batches starting at the indexes in S
ItemsIn(S, its) == {i \in 1..Len(its) : i - ((i - 1) % BatchSize) \in S}

\* the entry that _process_item_batch builds for an item
EntryOf(item) == Entry(DocText(item), MetaHasFulltext(item), MetaFulltextSource(item))

\* the run has fetched its candidates
HasFetched(p) == pc[p] \in {"batch", "done"} /\ hist[p].source # "none"

\* the run read its candidates from the local database: the runs that
\* extract fulltext (extract_fulltext in local mode, database readable)
ExtractionRun(p) == pc[p] \in {"batch", "done"} /\ hist[p].source = "local"

\* the decision table of the probe: process or not
ProbeTable(stored, available) ==
    IF ~stored.present THEN TRUE
    ELSE IF stored.has_fulltext THEN FALSE
    ELSE available

HasRecord(k) == \E i \in 1..Len(library) : library[i].key = k

RecordOf(k) == library[CHOOSE i \in 1..Len(library) : library[i].key = k]

\* the collection holds the record's extracted fulltext, marked has_fulltext
HoldsFulltext(st, k) ==
    /\ HasRecord(k)
    /\ st[k].present
    /\ st[k].has_fulltext
    /\ st[k].doc = ExtractFulltextForItem(RecordOf(k).atts).text

\* C2: once the collection holds a record's extracted fulltext with
\* has_fulltext=true, no step of a run without force rebuild replaces that
\* entry by one without has_fulltext (the library does not change).
C2_NoFulltextLoss ==
    [][ (\A p \in Procs : ~args'[p].force_full_rebuild) =>
            \A k \in Keys :
                HoldsFulltext(store, k) => (store'[k].present /\ store'[k].has_fulltext) ]_vars

\* the premise of idempotence: every candidate of the run had its fulltext
\* in the collection when the run began
AllCaptured(p) ==
    \A i \in 1..Len(hist[p].candidates) :
        /\ hist[p].store0[hist[p].candidates[i].key].present
        /\ hist[p].store0[hist[p].candidates[i].key].has_fulltext

Indexed(p) == {items[p][i].key : i \in ItemsIn(hist[p].upserted, items[p])}

\* C4: in every run mode, a first run over a preprint and a journal article
\* with identical DOI indexes exactly one document for the pair, the
\* journal article's.
C4_DedupEveryMode ==
    \A p \in Procs :
        (/\ pc[p] = "done"
         /\ hist[p].source # "none"
         /\ hist[p].failed = {}
         /\ hist[p].store0 = EmptyCollection)
        => LET recs == LocalItems(library, args[p].limit)
           IN  \A i, j \in 1..Len(recs) :
                   (/\ recs[i].item_type = "journalArticle"
                    /\ recs[j].item_type = "preprint"
                    /\ recs[i].doi # None
                    /\ recs[i].doi = recs[j].doi)
                   => Indexed(p) \cap {recs[i].key, recs[j].key} = {recs[i].key}

\* C5: a batch whose upsert raises adds its item count to errors and nothing
\* to added_items; the run goes on with the remaining batches, and the
\* documents of every batch whose upsert returns are in the collection and
\* counted as added.
C5_BatchErrorIsolation ==
    \A p \in Procs :
        HasFetched(p) =>
            /\ stats[p].errors = Cardinality(ItemsIn(hist[p].failed, items[p]))
            /\ stats[p].added_items = Cardinality(ItemsIn(hist[p].upserted, items[p]))
            /\ \A i \in ItemsIn(hist[p].upserted, items[p]) :
                  store[items[p][i].key] = EntryOf(items[p][i])
            /\ hist[p].failed \cup hist[p].upserted
                  = {b \in BatchStarts(items[p]) : b < pos[p]}

\* a run has ended in which the upsert of a full batch raised and the upsert
\* of another batch returned
C5_Witness ==
    \E p \in Procs :
        /\ pc[p] = "done"
        /\ hist[p].upserted # {}
        /\ \E b \in hist[p].failed : Len(BatchAt(items[p], b)) = BatchSize
        /\ stats[p].errors = BatchSize

\* C6: update_database never raises to its caller, and a run that a failing
\* step ended (reset, fetch, saving the config) returns stats whose error
\* field is populated.
C6_AlwaysReturnsStats ==
    \A p \in Procs :
        /\ pc[p] # "raised"
        /\ (pc[p] = "done" /\ hist[p].fatal # "") => stats[p].error # ""

\* a run has returned after its config could not be saved
C6_Witness ==
    \E p \in Procs :
        /\ pc[p] = "done"
        /\ hist[p].fatal = "save"
        /\ stats[p].error # ""

\* C7: a force-rebuild run that has fetched its candidates processes every
\* candidate and submits it for upsert whatever was stored before, and when
\* it ends the collection holds entries of current candidates only, as many
\* as the run added.
C7_ForceRebuild ==
    \A p \in Procs :
        (pc[p] = "done" /\ args[p].force_full_rebuild /\ hist[p].source # "none") =>
            /\ ItemKeys(items[p]) = CandidateKeys(p)
            /\ hist[p].failed \cup hist[p].upserted = BatchStarts(items[p])
            /\ \A k \in Keys : store[k].present => k \in CandidateKeys(p)
            /\ Count(store) = stats[p].added_items

\* a force rebuild has ended that removed the entry of a record which is no
\* candidate any more and processed a record stored with has_fulltext
C7_Witness ==
    \E p \in Procs :
        /\ pc[p] = "done"
        /\ args[p].force_full_rebuild
        /\ hist[p].source = "local"
        /\ \E k \in Keys : hist[p].store0[k].present /\ ~store[k].present
        /\ \E k \in ItemKeys(items[p]) :
              hist[p].store0[k].present /\ hist[p].store0[k].has_fulltext

\* C8: at most one update_database run is active against the collection at
\* any time.
C8_SingleWriter == Cardinality({p \in Procs : Active(p)}) <= 1

\* the local database could not be read in a run that should have used it
LocalDbFailed(p) ==
    /\ UsesLocalDb(args[p].extract_fulltext, args[p].local_mode)
    /\ hist[p].source = "api" \/ hist[p].fatal = "fetch"

\* C9: a run in extraction mode and local mode whose local database cannot
\* be read ends with the error field populated and upserts nothing.
C9_LocalUnavailableIsFatal ==
    \A p \in Procs :
        (pc[p] = "done" /\ LocalDbFailed(p)) =>
            /\ stats[p].error # ""
            /\ hist[p].upserted = {}

\* C10 as stated: a run that ends because fetching failed has upserted
\* nothing and leaves the collection as it was when the run began, with or
\* without force rebuild.
C10_FetchFailureKeepsCollection ==
    \A p \in Procs :
        (pc[p] = "done" /\ hist[p].fatal = "fetch") =>
            /\ hist[p].upserted = {}
            /\ store = hist[p].store0

\* C10 amended: a run that ends because fetching failed has upserted
\* nothing; without force rebuild the collection is as it was when the run
\* began, with force rebuild it has been reset and is empty.
C10_FetchFailureAmended ==
    \A p \in Procs :
        (pc[p] = "done" /\ hist[p].fatal = "fetch") =>
            /\ hist[p].upserted = {}
            /\ stats[p].added_items = 0
            /\ store = IF args[p].force_full_rebuild
                       THEN EmptyCollection
                       ELSE hist[p].store0

\* a force rebuild over a non-empty collection has ended because fetching
\* failed
C10_Witness ==
    \E p \in Procs :
        /\ pc[p] = "done"
        /\ hist[p].fatal = "fetch"
        /\ args[p].force_full_rebuild
        /\ hist[p].store0 # EmptyCollection
        /\ store = EmptyCollection

\* the step ends the pass of p's run over all batches
CompletesPass(p) == pc[p] = "batch" /\ pos[p] > Len(items[p]) /\ pc'[p] = "done"

\* last_update as an instance reads it from the file
PersistedLastUpdate(file) == LoadUpdateConfig(file).last_update

C12_HasFulltextIffEmbedded ==
    \A k \in Keys :
        store[k].present =>
            (store[k].has_fulltext
             <=> /\ HasRecord(k)
                 /\ ExtractFulltextForItem(RecordOf(k).atts).text # None
                 /\ store[k].doc = ExtractFulltextForItem(RecordOf(k).atts).text)

\* C13: the fulltext_source of every stored entry is pdf, html or empty,
\* whatever the declared content type and the file name extension of the
\* attachment that extraction selected.
C13_FulltextSourceValues ==
    \A k \in Keys :
        store[k].present => store[k].fulltext_source \in {"pdf", "html", ""}

\* the schedule: whether an automatic update is due at time t
ScheduleTable(auto_update, frequency, last_update, t) ==
    /\ auto_update
    /\ \/ frequency = "startup"
       \/ frequency = "daily" /\ (last_update = 0 \/ t - last_update >= 1)
       \/ frequency = "every_2" /\ (last_update = 0 \/ t - last_update >= 2)
       \/ frequency = "every_7" /\ (last_update = 0 \/ t - last_update >= 7)

\* C14: when last_update is unset or a timestamp, should_update_database
\* (called directly or by get_database_status) returns what the schedule
\* says for auto_update, update_frequency, last_update and the current time:
\* true exactly when auto_update is true and the frequency is startup, or
\* daily or every_N with last_update unset or at least 1 or N days old;
\* false whenever auto_update is false or the frequency is manual.
C14_ShouldUpdateMatchesSchedule ==
    [][ LET cfg == LoadUpdateConfig(config_file)
            due == ScheduleTable(cfg.auto_update, cfg.update_frequency,
                                 cfg.last_update, now)
        IN  cfg.last_update # Malformed =>
              /\ ShouldUpdateCheck => (~ret'.raised /\ ret'.value = due)
              /\ GetDatabaseStatus => (~ret'.raised /\ ret'.should_update = due) ]_vars

\* should_update_database has just returned true for an every_2 schedule
\* whose last update is exactly two days old
C14_Witness ==
    /\ ret.op = "should_update_database"
    /\ ret.at = now
    /\ ret.value
    /\ config_file.exists
    /\ config_file.update_config.update_frequency = "every_2"
    /\ config_file.update_config.last_update > 0
    /\ now - config_file.update_config.last_update = 2

\* C15: the write at the completion of a run changes only last_update:
\* auto_update, update_frequency and update_days read from the file after
\* the write are what the file held just before it, whoever wrote them.
C15_WritesOnlyLastUpdate ==
    [][ \A p \in Procs :
            (CompletesPass(p) /\ config_file' # config_file) =>
                LET before == LoadUpdateConfig(config_file)
                    after  == LoadUpdateConfig(config_file')
                IN  /\ after.auto_update = before.auto_update
                    /\ after.update_frequency = before.update_frequency
                    /\ after.update_days = before.update_days ]_vars

\* keys of the candidates that the probe of the run decided not to process
ProbeSkipped(p) == CandidateKeys(p) \ ItemKeys(items[p])

\* C16: a run that read its candidates from the local database counts in
\* skipped_items every candidate that the probe decided not to process; a
\* run whose candidates are all indexed already reports skipped_items = n.
C16_ProbeSkipsCounted ==
    \A p \in Procs :
        (pc[p] = "done" /\ hist[p].source = "local" /\ hist[p].fatal = "") =>
            stats[p].skipped_items >= Cardinality(ProbeSkipped(p))

\* C17: total_items is the number of candidates read from the source, before
\* deduplication and before the probe filters them.
C17_TotalIsFetchedCount ==
    \A p \in Procs :
        HasFetched(p) => stats[p].total_items = hist[p].fetched

\* keys of the candidates that the probe of the run flagged for reprocessing:
\* stored without fulltext, fulltext now locally available
ProbeUpdates(p) ==
    {k \in CandidateKeys(p) :
        \E i \in 1..Len(hist[p].candidates) :
            /\ hist[p].candidates[i].key = k
            /\ ProbeDecision(hist[p].probed, hist[p].candidates[i],
                             ~args[p].force_full_rebuild,
                             args[p].force_full_rebuild) = "update"}

\* C18: when every upsert of a run that read its candidates from the local
\* database returned, updated_items is the number of candidates that the
\* probe flagged for reprocessing.
C18_UpdatedCountsReprocessed ==
    \A p \in Procs :
        (/\ pc[p] = "done"
         /\ hist[p].source = "local"
         /\ hist[p].fatal = ""
         /\ hist[p].failed = {})
        => stats[p].updated_items = Cardinality(ProbeUpdates(p))

\* the text that the attachment selected by extraction yields, before the cut
RawText(atts) ==
    LET best   == ScanAttachments(atts, 1, 0, 0)
        target == IF best[1] # 0 THEN best[1] ELSE best[2]
    IN  IF target = 0 THEN None ELSE atts[target].text

\* the entry of key k was indexed from the fulltext of its record
IndexedFromFulltext(k) ==
    /\ store[k].present
    /\ store[k].has_fulltext
    /\ HasRecord(k)
    /\ StripNonEmpty(ExtractFulltextForItem(RecordOf(k).atts).text)

\* C19: the fulltext that extraction returns for a record is at most
\* FulltextCap characters long, and so is the stored document of every
\* record indexed from its fulltext; when the attachment yields more than
\* FulltextCap characters the stored document has exactly FulltextCap.
C19_FulltextTruncated ==
    /\ \A i \in 1..Len(library) :
          Len(ExtractFulltextForItem(library[i].atts).text) <= FulltextCap
    /\ \A k \in Keys :
          IndexedFromFulltext(k) =>
              /\ Len(store[k].doc) <= FulltextCap
              /\ Len(RawText(RecordOf(k).atts)) > FulltextCap
                    => Len(store[k].doc) = FulltextCap

\* the collection holds the document of a record whose PDF yields more than
\* FulltextCap characters
C19_Witness ==
    \E k \in Keys :
        /\ IndexedFromFulltext(k)
        /\ Len(RawText(RecordOf(k).atts)) > FulltextCap
        /\ Len(store[k].doc) = FulltextCap

\* an item with a key, no usable fulltext and no structured field (the
\* records of the model have no creators, abstract, venue, tags or notes)
EmptyItem(item) == item.title = None /\ ~StripNonEmpty(item.fulltext)

\* indexes of the empty items in the batches the run has processed
EmptyProcessed(p) ==
    {i \in 1..Len(items[p]) : i < pos[p] /\ EmptyItem(items[p][i])}

\* C20: an item that has a key, no usable fulltext and only empty structured
\* fields is counted in skipped_items and no document is upserted for it.
C20_EmptyRecordSkipped ==
    \A p \in Procs :
        HasFetched(p) =>
            /\ stats[p].skipped_items >= Cardinality(EmptyProcessed(p))
            /\ \A i \in EmptyProcessed(p) : items[p][i].key \notin Indexed(p)

\* C21: should_update_database and get_database_status return normally
\* whatever the persisted configuration holds, a last_update that is no
\* timestamp included, under every update_frequency.
C21_MalformedConfigNeverFatal ==
    ret.op \in {"should_update_database", "get_database_status"} => ~ret.raised

\* C22: while the background update_database run started at server startup is
\* in progress, the event loop can still start a query request.
C22_QueriesServedDuringUpdate ==
    EventLoopBusy => ENABLED (\E ok \in BOOLEAN : HandleSemanticSearch(ok))

\* two records share a normalized DOI or a normalized title
SharesKey(a, b) ==
    \/ DoiKey(a) # NoKey /\ DoiKey(a) = DoiKey(b)
    \/ TitleKey(a) # NoKey /\ TitleKey(a) = TitleKey(b)

\* C23: after deduplication, of any two candidate records that share a
\* normalized DOI or a normalized title, whatever their types, exactly one
\* is kept.
C23_ExactlyOneKeptPerSharedKey ==
    \A p \in Procs :
        ExtractionRun(p)
        => LET recs == LocalItems(library, args[p].limit)
           IN  \A i, j \in 1..Len(recs) :
                   (i < j /\ SharesKey(recs[i], recs[j]))
                   => Cardinality(CandidateKeys(p) \cap {recs[i].key, recs[j].key}) = 1

\* the record at index i is a preprint and some other record typed
\* journalArticle shares its normalized DOI or its normalized title
PreprintOfArticle(recs, i) ==
    /\ recs[i].item_type = "preprint"
    /\ \E j \in 1..Len(recs) \ {i} :
          recs[j].item_type = "journalArticle" /\ SharesKey(recs[i], recs[j])

\* the records from index i on that are no preprint of an article, in order
RECURSIVE KeptFrom(_, _)
KeptFrom(recs, i) ==
    IF i > Len(recs) THEN <<>>
    ELSE (IF PreprintOfArticle(recs, i) THEN <<>> ELSE <<recs[i]>>) \o KeptFrom(recs, i + 1)

\* C24: deduplication drops a record if and only if it is a preprint and
\* some other record typed journalArticle shares its normalized DOI or
\* title; every other record is kept (records of other types and records
\* without key included), in the order of the input.
C24_DropsOnlyPreprintOfArticle ==
    \A p \in Procs :
        ExtractionRun(p)
        => hist[p].candidates = KeptFrom(LocalItems(library, args[p].limit), 1)

\* a preprint without DOI was dropped for an article whose title is written
\* differently, and the two other records were kept
C24_Witness ==
    /\ pc["p1"] = "done"
    /\ ExtractionRun("p1")
    /\ Len(hist["p1"].candidates) = 2
    /\ \E i, j \in 1..Len(library) :
          /\ library[i].item_type = "preprint"
          /\ library[i].doi = None
          /\ library[j].item_type = "journalArticle"
          /\ library[i].title # library[j].title
          /\ TitleKey(library[i]) = TitleKey(library[j])
          /\ library[i].key \notin CandidateKeys("p1")

\* the orders of n records
Orders(n) == {s \in [1..n -> 1..n] : \A i, j \in 1..n : s[i] = s[j] => i = j}

\* C25: the set of records deduplication keeps does not depend on the order
\* of the candidate list: the drop decisions use the index built over all
\* records.
C25_DedupOrderIndependent ==
    \A p \in Procs :
        ExtractionRun(p)
        => LET recs == LocalItems(library, args[p].limit)
           IN  \A s \in Orders(Len(recs)) :
                   ItemKeys(Dedup([i \in 1..Len(recs) |-> recs[s[i]]])) = CandidateKeys(p)

\* a preprint that comes before its article in the candidate list was dropped
C25_Witness ==
    /\ ExtractionRun("p1")
    /\ \E i, j \in 1..Len(library) :
          /\ i < j
          /\ library[i].item_type = "preprint"
          /\ library[j].item_type = "journalArticle"
          /\ SharesKey(library[i], library[j])
          /\ library[i].key \notin CandidateKeys("p1")

\* C26: in an extraction run without force rebuild, a candidate whose stored
\* entry has has_fulltext=false and for which no fulltext can be obtained
\* locally (no attachment, a row whose file is missing, or an extraction
\* that yields no text) is skipped by the probe and not upserted again.
C26_UnobtainableFulltextSkipped ==
    \A p \in Procs :
        (ExtractionRun(p) /\ ~args[p].force_full_rebuild) =>
            \A i \in 1..Len(hist[p].candidates) :
                LET rec == hist[p].candidates[i]
                IN  (/\ hist[p].probed[rec.key].present
                     /\ ~hist[p].probed[rec.key].has_fulltext
                     /\ ExtractFulltextForItem(rec.atts) = NoFulltext)
                    => rec.key \notin ItemKeys(items[p])

\* indexes of the attachment rows of the given content types whose path
\* resolves into the storage directory and whose file exists
Qualifying(atts, ctypes) ==
    {i \in 1..Len(atts) :
        atts[i].path = "storage" /\ atts[i].exists /\ atts[i].ctype \in ctypes}

First(S) == CHOOSE i \in S : \A j \in S : i <= j

\* the attachment the selection rule names: the first qualifying PDF, else
\* the first qualifying HTML, else none (0)
Chosen(atts) ==
    IF Qualifying(atts, {PdfType}) # {} THEN First(Qualifying(atts, {PdfType}))
    ELSE IF Qualifying(atts, {"text/html"}) # {} THEN First(Qualifying(atts, {"text/html"}))
    ELSE 0

\* the text the selection rule yields: none when no attachment qualifies or
\* the chosen one yields no text
ChosenText(atts) ==
    IF Chosen(atts) = 0 THEN None ELSE Prefix(atts[Chosen(atts)].text, FulltextCap)

\* C27: extraction uses the first child attachment with content type
\* application/pdf whose resolved file exists, else the first such text/html
\* attachment; rows that do not resolve or do not exist are skipped, and the
\* result is none when no attachment qualifies or the chosen one yields no
\* text.
C27_AttachmentSelection ==
    /\ \A i \in 1..Len(library) :
          ExtractFulltextForItem(library[i].atts).text = ChosenText(library[i].atts)
    /\ \A p \in Procs :
          ExtractionRun(p) =>
              \A i \in 1..Len(items[p]) :
                  items[p][i].fulltext = ChosenText(RecordOf(items[p][i].key).atts)

\* a run extracted the text of a second-row PDF: the first row is an HTML
\* snapshot or a PDF whose file is missing
C27_Witness ==
    \E p \in Procs :
        /\ ExtractionRun(p)
        /\ Len(items[p]) = 1
        /\ LET atts == RecordOf(items[p][1].key).atts
           IN  /\ Len(atts) = 2
               /\ Chosen(atts) = 2
               /\ atts[2].ctype = PdfType
               /\ items[p][1].fulltext = atts[2].text
               /\ items[p][1].fulltext # None

\* C28: a failure while enumerating or reading one record's attachment is
\* local to that record: every other record that the same run upserts is
\* stored with its own extracted fulltext.
C28_AttachmentFailureIsLocal ==
    \A p \in Procs :
        (/\ pc[p] = "done"
         /\ hist[p].raised_at # 0
         /\ hist[p].fatal = "")
        => \A k \in Indexed(p) \ {hist[p].raised_at} :
               ExtractFulltextForItem(RecordOf(k).atts) # NoFulltext
               => HoldsFulltext(store, k)

\* start indexes of the batches with at least one document that the batch
\* loop has passed
DocumentBatches(p) ==
    {b \in BatchStarts(items[p]) :
        b < pos[p] /\ BatchDocuments(BatchAt(items[p], b)) # <<>>}

\* the batches are contiguous slices of at most BatchSize items, and the
\* batches with documents passed so far were each submitted once, in order
BatchesInOrder(p) ==
    /\ (pos[p] - 1) % BatchSize = 0
    /\ \A b \in BatchStarts(items[p]) :
          /\ Len(BatchAt(items[p], b)) \in 1..BatchSize
          /\ \A j \in 1..Len(BatchAt(items[p], b)) :
                BatchAt(items[p], b)[j] = items[p][b + j - 1]
    /\ {hist[p].submitted[i] : i \in 1..Len(hist[p].submitted)} = DocumentBatches(p)
    /\ \A i, j \in 1..Len(hist[p].submitted) :
          i < j => hist[p].submitted[i] < hist[p].submitted[j]
    /\ pc[p] = "done" => pos[p] > Len(items[p])

\* C29: batches are contiguous slices of at most BatchSize candidates
\* submitted one at a time in candidate order; a run whose fetch succeeded
\* terminates, and by then every batch with a document has been submitted
\* exactly once, whether or not earlier batches failed.
C29_BatchesSerializedAndTerminate ==
    /\ [](\A p \in Procs : HasFetched(p) => BatchesInOrder(p))
    /\ \A p \in Procs : (HasFetched(p) /\ pc[p] = "batch") ~> (pc[p] = "done")

\* a run over three items has ended: the upsert of its first batch raised
\* and the second batch was submitted after it
C29_Witness ==
    \E p \in Procs :
        /\ pc[p] = "done"
        /\ Len(items[p]) = NumBatchRecords
        /\ hist[p].failed = {1}
        /\ hist[p].submitted = <<1, 1 + BatchSize>>

\* number of items in the batches the batch loop has passed
SeenItems(p) == Min(pos[p] - 1, Len(items[p]))

=============================================================================
